---- MODULE Spec2Model ----
(***************************************************************************)
(* The fraud-rule DSL engine of solution/app/dsl: TokenStream (lexer),     *)
(* Parser (recursive descent), build_normalized_expression (normalizer),   *)
(* eval_comp / evaluate (evaluator) and the package entry points           *)
(* parse_rule / evaluate of dsl/__init__.py.                               *)
(*                                                                         *)
(* A Python str is a sequence of one-character strings.  Python positions  *)
(* are zero-based: the character at Python index i of s is s[i + 1].       *)
(* A Python exception is an outcome record whose kind names its class.     *)
(***************************************************************************)
EXTENDS Integers, Sequences, FiniteSets, TLC

\* ------------------------------------------------------------------------
\* Characters
\* ------------------------------------------------------------------------

\* The characters of the rule texts, in code-point order.
AsciiOrder ==
    << " ", "!", "#", "'", "(", ")", ".",
       "0", "1", "2", "3", "4", "5", "6", "7", "8", "9",
       "<", "=", ">",
       "A", "B", "C", "D", "E", "F", "G", "H", "I", "J", "K", "L", "M",
       "N", "O", "P", "Q", "R", "S", "T", "U", "V", "W", "X", "Y", "Z",
       "a", "b", "c", "d", "e", "f", "g", "h", "i", "j", "k", "l", "m",
       "n", "o", "p", "q", "r", "s", "t", "u", "v", "w", "x", "y", "z" >>

Chars == { AsciiOrder[i] : i \in 1..Len(AsciiOrder) }

\* ord(c), up to an order-preserving renumbering.
Ord == [ c \in Chars |-> CHOOSE i \in 1..Len(AsciiOrder) : AsciiOrder[i] = c ]

Digits == << "0", "1", "2", "3", "4", "5", "6", "7", "8", "9" >>

\* str.isspace, str.isnumeric, str.isalpha on one character
IsSpace(c) == c = " "

IsNumeric(c) == Ord[c] >= Ord["0"] /\ Ord[c] <= Ord["9"]

IsUpper(c) == Ord[c] >= Ord["A"] /\ Ord[c] <= Ord["Z"]

IsAlpha(c) == Ord[c] >= Ord["A"] /\ Ord[c] <= Ord["z"]

\* str.lower on one character
LowerChar(c) == IF IsUpper(c) THEN AsciiOrder[Ord[c] + (Ord["a"] - Ord["A"])] ELSE c

\* str.lower
Lower(s) == [ i \in 1..Len(s) |-> LowerChar(s[i]) ]

\* source[i] for an index inside the string
At(s, i) == s[i + 1]

\* The Python slice s[a:b] for 0 <= a and 0 <= b
Slice(s, a, b) ==
    LET hi == IF b > Len(s) THEN Len(s) ELSE b
    IN  IF a >= hi THEN << >> ELSE SubSeq(s, a + 1, hi)

\* Python str < str: lexicographic by code point
RECURSIVE StrLess(_, _)
StrLess(s, t) ==
    IF t = << >> THEN FALSE
    ELSE IF s = << >> THEN TRUE
    ELSE IF Ord[Head(s)] < Ord[Head(t)] THEN TRUE
    ELSE IF Ord[Head(s)] > Ord[Head(t)] THEN FALSE
    ELSE StrLess(Tail(s), Tail(t))

\* Optional[Span] = None
NoSpan == -1

\* ------------------------------------------------------------------------
\* token.py: TokenStream
\* ------------------------------------------------------------------------

\* class Token
Token(repr, data, span) == [ repr |-> repr, data |-> data, span |-> span ]

\* Token._make_keyword matching self.data in place of self.data.lower()
MakeKeywordCased(tok) ==
    IF tok.repr # "IDENTIFIER" THEN tok
    ELSE IF tok.data = << "n", "o", "t" >> THEN [ tok EXCEPT !.repr = "NOT" ]
    ELSE IF tok.data = << "a", "n", "d" >> THEN [ tok EXCEPT !.repr = "AND" ]
    ELSE IF tok.data = << "o", "r" >> THEN [ tok EXCEPT !.repr = "OR" ]
    ELSE tok

\* Token._make_keyword
MakeKeyword(tok) ==
    IF tok.repr # "IDENTIFIER" THEN tok
    ELSE LET low == Lower(tok.data)
         IN  IF low = << "n", "o", "t" >> THEN [ tok EXCEPT !.repr = "NOT" ]
             ELSE IF low = << "a", "n", "d" >> THEN [ tok EXCEPT !.repr = "AND" ]
             ELSE IF low = << "o", "r" >> THEN [ tok EXCEPT !.repr = "OR" ]
             ELSE tok

\* The outcomes of producing one token: a token and the cursor after it, the
\* end of the source, a ParserError, or an IndexError.
LexTok(tok, pos) == [ kind |-> "tok", tok |-> tok, pos |-> pos ]

LexEnd(pos) == [ kind |-> "end", pos |-> pos ]

LexError(detail, span) == [ kind |-> "ParserError", detail |-> detail, position |-> span ]

LexIndexError == [ kind |-> "IndexError" ]

\* TokenStream.skip_whitespace: the cursor after the first non-space
\* character at or after pos, or Len(source) + 1 when there is none.
RECURSIVE SkipWhitespace(_, _)
SkipWhitespace(source, pos) ==
    IF pos >= Len(source) THEN Len(source) + 1
    ELSE IF IsSpace(At(source, pos)) THEN SkipWhitespace(source, pos + 1)
    ELSE pos + 1


\* The loop of TokenStream._identifier: the cursor when it ends.
RECURSIVE IdentifierEnd(_, _)
IdentifierEnd(source, pos) ==
    IF pos >= Len(source) THEN pos
    ELSE IF IsAlpha(At(source, pos)) \/ At(source, pos) = "."
         THEN IdentifierEnd(source, pos + 1)
         ELSE pos

\* TokenStream._identifier with Span(symbol=self.position) taken on entry
IdentifierSpanAtCursor(source, pos) ==
    LET str_start == pos - 1
        end == IdentifierEnd(source, pos)
    IN  LexTok(Token("IDENTIFIER", Slice(source, str_start, end), pos), end)

\* TokenStream._identifier, entered with the cursor at pos
Identifier(source, pos) ==
    LET str_start == pos - 1
        end == IdentifierEnd(source, pos)
    IN  LexTok(Token("IDENTIFIER", Slice(source, str_start, end), str_start), end)

\* The loop of TokenStream._number: the cursor and caught_dot when it ends,
\* or the double-dot error, raised with the cursor past the second dot.
RECURSIVE NumberEnd(_, _, _)
NumberEnd(source, pos, caught_dot) ==
    IF pos >= Len(source) THEN [ err |-> FALSE, pos |-> pos, dot |-> caught_dot ]
    ELSE IF IsNumeric(At(source, pos)) THEN NumberEnd(source, pos + 1, caught_dot)
    ELSE IF At(source, pos) = "." THEN
         IF caught_dot THEN [ err |-> TRUE, pos |-> pos + 1, dot |-> TRUE ]
         ELSE NumberEnd(source, pos + 1, TRUE)
    ELSE [ err |-> FALSE, pos |-> pos, dot |-> caught_dot ]

\* TokenStream._number, entered with the cursor at pos
Number(source, pos) ==
    LET str_start == pos - 1
        e == NumberEnd(source, pos, FALSE)
    IN  IF e.err THEN LexError("double dot found while parsing a number", e.pos)
        ELSE LexTok(Token(IF e.dot THEN "FLOAT" ELSE "INT",
                          Slice(source, str_start, e.pos), str_start), e.pos)

\* The loop of TokenStream._string: the cursor when it ends.
RECURSIVE StringEnd(_, _)
StringEnd(source, pos) ==
    IF pos >= Len(source) THEN pos
    ELSE IF At(source, pos) # "'" THEN StringEnd(source, pos + 1)
    ELSE pos + 1

\* TokenStream._string, entered with the cursor at pos
String(source, pos) ==
    LET start == pos
        end == StringEnd(source, pos)
    IN  LexTok(Token("STRING", Slice(source, start, end - 1), start - 1), end)

\* TokenStream.peek, with the cursor at pos
Peek(source, pos, s) ==
    IF pos + 1 >= Len(source) THEN FALSE ELSE At(source, pos + 1) = s

\* TokenStream._fallback, entered with the cursor at pos, after start
Fallback(source, pos, start) ==
    LET span == pos - 1
    IN  CASE start = "=" -> LexTok(Token("EQ", << "=" >>, span), pos)
          [] start = "!" ->
                IF pos >= Len(source) THEN LexIndexError
                ELSE IF At(source, pos) = "="
                     THEN LexTok(Token("NE", << "!", "=" >>, span), pos + 1)
                     ELSE LexError("no such token that starts with ! and does not end with =", span)
          [] start = ">" ->
                IF Peek(source, pos, "=")
                THEN LexTok(Token("GE", << ">", "=" >>, span), pos + 1)
                ELSE LexTok(Token("GT", << ">" >>, span), pos)
          [] start = "<" ->
                IF Peek(source, pos, "=")
                THEN LexTok(Token("LE", << "<", "=" >>, span), pos + 1)
                ELSE LexTok(Token("LT", << "<" >>, span), pos)
          [] start = "(" -> LexTok(Token("LPAREN", << "(" >>, span), pos)
          [] start = ")" -> LexTok(Token("RPAREN", << ")" >>, span), pos)
          [] OTHER -> LexError("unknown token start", NoSpan)

\* TokenStream._next_token, entered with the cursor at pos, after start
NextToken(source, pos, start) ==
    IF IsAlpha(start) THEN Identifier(source, pos)
    ELSE IF IsNumeric(start) THEN Number(source, pos)
    ELSE IF start = "'" THEN String(source, pos)
    ELSE Fallback(source, pos, start)

\* tok._make_keyword() on the token of a round, other outcomes unchanged
Keyworded(r) == IF r.kind = "tok" THEN LexTok(MakeKeyword(r.tok), r.pos) ELSE r

\* One round of the loop of TokenStream.__iter__ after skip_whitespace has
\* left the cursor at p
TokenAfter(source, p) ==
    IF p > Len(source) THEN LexEnd(Len(source))
    ELSE Keyworded(NextToken(source, p, At(source, p - 1)))

\* One round of the loop of TokenStream.__iter__ with the cursor at pos
IterStep(source, pos) == TokenAfter(source, SkipWhitespace(source, pos))

\* list(iter(stream)): the tokens, or the exception that ends the iteration
RECURSIVE Iterate(_, _, _)
Collect(source, acc, r) ==
    IF r.kind = "tok" THEN Iterate(source, r.pos, Append(acc, r.tok))
    ELSE IF r.kind = "end" THEN [ kind |-> "ok", tokens |-> acc ]
    ELSE r

Iterate(source, pos, acc) == Collect(source, acc, IterStep(source, pos))

\* ------------------------------------------------------------------------
\* ast.py: Operator, Field, the nodes of Expr
\* ------------------------------------------------------------------------

\* class Operator(StrEnum): member name |-> value
Operator ==
    [ GT |-> << ">" >>, LT |-> << "<" >>, LE |-> << "<", "=" >>,
      GE |-> << ">", "=" >>, EQ |-> << "=" >>, NE |-> << "!", "=" >> ]

OperatorNames == DOMAIN Operator

\* class Field(StrEnum): member name |-> value
Field ==
    [ AMOUNT |-> << "a", "m", "o", "u", "n", "t" >>,
      CURRENCY |-> << "c", "u", "r", "r", "e", "n", "c", "y" >>,
      MERCHANT_ID |-> << "m", "e", "r", "c", "h", "a", "n", "t", "I", "d" >>,
      IP_ADDRESS |-> << "i", "p", "A", "d", "d", "r", "e", "s", "s" >>,
      DEVICE_ID |-> << "d", "e", "v", "i", "c", "e", "I", "d" >>,
      USER_AGE |-> << "u", "s", "e", "r", ".", "a", "g", "e" >>,
      USER_REGION |-> << "u", "s", "e", "r", ".", "r", "e", "g", "i", "o", "n" >> ]

FieldNames == DOMAIN Field

\* Value = str | float | int.  A float of the model is a whole number n.0.
StrValue(s) == [ kind |-> "str", s |-> s ]

IntValue(n) == [ kind |-> "int", n |-> n ]

FloatValue(n) == [ kind |-> "float", n |-> n ]

IsNumber(v) == v.kind \in { "int", "float" }

\* Comp.__init__, Not.__init__, And.__init__, Or.__init__
Comp(field, operator, value, span) ==
    [ type |-> "comp", field |-> field, operator |-> operator, value |-> value, span |-> span ]

Not(inner, span) == [ type |-> "not", inner |-> inner, span |-> span ]

And(left, right, span) == [ type |-> "and", left |-> left, right |-> right, span |-> span ]

Or(left, right, span) == [ type |-> "or", left |-> left, right |-> right, span |-> span ]

\* ------------------------------------------------------------------------
\* types.py: ParserError
\* ------------------------------------------------------------------------

\* ParserError.__init__: detail is the parts of the message (<< >> for None),
\* position a Span or NoSpan, exceptions the nested errors (<< >> for None).
ParserError(detail, position) ==
    [ kind |-> "ParserError", detail |-> detail, position |-> position, exceptions |-> << >> ]

\* The AttributeError of reading a name the class TokenRepr does not define
AttributeError == [ kind |-> "AttributeError" ]

\* ------------------------------------------------------------------------
\* parser.py: Parser
\* ------------------------------------------------------------------------

\* Parser.__init__: self.stream, or the exception that escapes the constructor
StreamOf(r) ==
    IF r.kind = "ok" THEN [ kind |-> "ok", stream |-> r.tokens ]
    ELSE IF r.kind = "ParserError" THEN [ kind |-> "ok", stream |-> << >> ]
    ELSE r

ParserInit(source) == StreamOf(Iterate(source, 0, << >>))

\* No token
None == [ repr |-> "None" ]

\* Parser.get without its except clause: the IndexError in place of a token
GetUncaught(stream, position) ==
    IF position < Len(stream) THEN stream[position + 1] ELSE [ repr |-> "IndexError" ]

\* Parser.get
Get(stream, position) ==
    IF position < Len(stream) THEN stream[position + 1] ELSE None

\* Parser.check_many with the parser at position
CheckMany(stream, position, reprs) ==
    LET tok == Get(stream, position)
    IN  IF tok.repr \in reprs THEN tok ELSE None

\* Parser.consume: the token consumed (None when the current token is not a
\* repr) and the position after it
Consume(stream, position, repr) ==
    LET tok == CheckMany(stream, position, { repr })
    IN  [ tok |-> tok, pos |-> IF tok.repr = "None" THEN position ELSE position + 1 ]

\* A value returned by a take_ method with the parser position after it
Taken(val, span, pos) == [ kind |-> "ok", val |-> val, span |-> span, pos |-> pos ]

\* Parser.take_value
TakeValue(stream, position) ==
    LET tok == Get(stream, position)
    IN  IF tok.repr # "None"
        THEN IF tok.repr = "STRING" THEN Taken(StrValue(tok.data), tok.span, position + 1)
             ELSE AttributeError
        ELSE ParserError(<< >>, NoSpan)

\* Parser.take_field
TakeField(stream, position) ==
    LET tok == Get(stream, position)
    IN  IF tok.repr # "None" /\ tok.repr = "IDENTIFIER" /\ \E f \in FieldNames : Field[f] = tok.data
        THEN Taken(CHOOSE f \in FieldNames : Field[f] = tok.data, tok.span, position + 1)
        ELSE ParserError(<< "expected a field found ", tok.repr >>, NoSpan)

\* Parser.take_operator
TakeOperator(stream, position) ==
    LET tok == Get(stream, position)
    IN  IF tok.repr # "None" /\ tok.repr \in OperatorNames
        THEN Taken(tok.repr, tok.span, position + 1)
        ELSE ParserError(<< "expected an operator found ", tok.repr >>, NoSpan)

\* A node returned by a grammar method with the parser position after it
Parsed(ast, pos) == [ kind |-> "ok", ast |-> ast, pos |-> pos ]

\* except ParserError as e: raise ParserError(...); other exceptions pass
Reraise(r, detail) == IF r.kind = "ParserError" THEN ParserError(detail, NoSpan) ELSE r

\* Parser.take_comp: the detail of the error it raises, and the method after
\* take_value, after take_operator and after take_field have returned
WhileParsingComparison == << "while parsing comparison: ", "\n" >>

CompOfValue(f, o, v) ==
    IF v.kind # "ok" THEN Reraise(v, WhileParsingComparison)
    ELSE Parsed(Comp(f.val, o.val, v.val, f.span), v.pos)

CompOfOperator(stream, f, o) ==
    IF o.kind # "ok" THEN Reraise(o, WhileParsingComparison)
    ELSE CompOfValue(f, o, TakeValue(stream, o.pos))

CompOfField(stream, f) ==
    IF f.kind # "ok" THEN Reraise(f, WhileParsingComparison)
    ELSE CompOfOperator(stream, f, TakeOperator(stream, f.pos))

TakeComp(stream, position) == CompOfField(stream, TakeField(stream, position))

RECURSIVE Expression(_, _), Term(_, _), Factor(_, _)

\* Parser.factor after NOT: Not(self.factor(), tok.span)
NotOf(tok, inner) ==
    IF inner.kind # "ok" THEN inner ELSE Parsed(Not(inner.ast, tok.span), inner.pos)

\* Parser.factor after `(`: the expression, then self.consume(RPAREN)
GroupOf(stream, expr) ==
    IF expr.kind # "ok" THEN expr
    ELSE Parsed(expr.ast, Consume(stream, expr.pos, "RPAREN").pos)

\* Parser.factor
Factor(stream, position) ==
    IF Consume(stream, position, "NOT").tok.repr # "None"
    THEN NotOf(Consume(stream, position, "NOT").tok, Factor(stream, position + 1))
    ELSE IF Consume(stream, position, "LPAREN").tok.repr # "None"
    THEN GroupOf(stream, Expression(stream, position + 1))
    ELSE Reraise(TakeComp(stream, position),
                 << "expected NOT, (, ) or a comparison expression" >>)

\* Parser.term after AND: And(left, right, left.span)
AndOf(left, right) ==
    IF right.kind # "ok" THEN right
    ELSE Parsed(And(left.ast, right.ast, left.ast.span), right.pos)

\* Parser.term after the first factor
TermOf(stream, left) ==
    IF left.kind # "ok" THEN left
    ELSE IF Consume(stream, left.pos, "AND").tok.repr # "None"
    THEN AndOf(left, Factor(stream, left.pos + 1))
    ELSE left

\* Parser.term
Term(stream, position) == TermOf(stream, Factor(stream, position))

\* Parser.expression after OR: Or(left, right, left.span)
OrOf(left, right) ==
    IF right.kind # "ok" THEN right
    ELSE Parsed(Or(left.ast, right.ast, left.ast.span), right.pos)

\* Parser.expression after the first term
ExpressionOf(stream, left) ==
    IF left.kind # "ok" THEN left
    ELSE IF Consume(stream, left.pos, "OR").tok.repr # "None"
    THEN OrOf(left, Term(stream, left.pos + 1))
    ELSE left

\* Parser.expression
Expression(stream, position) == ExpressionOf(stream, Term(stream, position))

\* Parser(TokenStream(rule)).expression()
ExpressionFrom(parser) ==
    IF parser.kind # "ok" THEN parser ELSE Expression(parser.stream, 0)

Parse(rule) == ExpressionFrom(ParserInit(rule))

\* ------------------------------------------------------------------------
\* ast.py: build_normalized_expression
\* ------------------------------------------------------------------------

\* str(n) for an int n >= 0
RECURSIVE StrInt(_)
StrInt(n) ==
    IF n < 10 THEN << Digits[n + 1] >>
    ELSE StrInt(n \div 10) \o << Digits[(n % 10) + 1] >>

\* The rendering of comp.value in build_normalized_expression
StrValueOf(val) ==
    IF val.kind = "str" THEN << "'" >> \o val.s \o << "'" >>
    ELSE IF val.kind = "int" THEN StrInt(val.n)
    ELSE StrInt(val.n) \o << ".", "0" >>

\* The text of a child of And put in parentheses whatever the child is
UnderAndWrapped(child, s) == << "(" >> \o s \o << ")" >>

\* The text of a child of And never put in parentheses
UnderAndBare(child, s) == s

\* The text of a child of And: in parentheses when the child is an Or
UnderAnd(child, s) ==
    IF child.type = "or" THEN << "(" >> \o s \o << ")" >> ELSE s

\* build_normalized_expression
RECURSIVE BuildNormalizedExpression(_)
BuildNormalizedExpression(expr) ==
    CASE expr.type = "and" ->
            UnderAnd(expr.left, BuildNormalizedExpression(expr.left))
                \o << " ", "A", "N", "D", " " >>
                \o UnderAnd(expr.right, BuildNormalizedExpression(expr.right))
      [] expr.type = "or" ->
            BuildNormalizedExpression(expr.left) \o << " ", "O", "R", " " >>
                \o BuildNormalizedExpression(expr.right)
      [] expr.type = "not" ->
            << "N", "O", "T", " ", "(" >> \o BuildNormalizedExpression(expr.inner) \o << ")" >>
      [] expr.type = "comp" ->
            Field[expr.field] \o << " " >> \o Operator[expr.operator] \o << " " >>
                \o StrValueOf(expr.value)

\* ------------------------------------------------------------------------
\* ast.py: eval_comp, evaluate
\* ------------------------------------------------------------------------

\* An attribute of the fact record that is None
Absent == [ kind |-> "none" ]

\* Field.get_propery_on_request
GetProperyOnRequest(field, req) ==
    CASE field = "AMOUNT" -> req.amount
      [] field = "CURRENCY" -> req.currency
      [] field = "MERCHANT_ID" -> req.merchant_id
      [] field = "DEVICE_ID" -> req.device_id
      [] field = "USER_AGE" -> req.user_age
      [] field = "USER_REGION" -> req.user_region
      [] OTHER -> Absent

\* What an evaluation returns, and the TypeError Python raises when it
\* orders a number against a str
Returns(b) == [ kind |-> "ok", val |-> b ]

TypeError == [ kind |-> "TypeError" ]

\* Python a < b
PyLess(a, b) ==
    IF IsNumber(a) /\ IsNumber(b) THEN Returns(a.n < b.n)
    ELSE IF a.kind = "str" /\ b.kind = "str" THEN Returns(StrLess(a.s, b.s))
    ELSE TypeError

\* Python a == b
PyEq(a, b) ==
    IF IsNumber(a) /\ IsNumber(b) THEN a.n = b.n
    ELSE IF a.kind = "str" /\ b.kind = "str" THEN a.s = b.s
    ELSE FALSE

\* Python a <= b
PyLessEq(a, b) ==
    LET lt == PyLess(a, b)
    IN  IF lt.kind # "ok" THEN lt ELSE Returns(lt.val \/ PyEq(a, b))

\* eval_comp without its test for None
EvalCompNoneCompared(comp, req) ==
    LET val == GetProperyOnRequest(comp.field, req)
    IN  CASE comp.operator = "GT" -> PyLess(comp.value, val)
          [] comp.operator = "GE" -> PyLessEq(comp.value, val)
          [] comp.operator = "LT" -> PyLess(val, comp.value)
          [] comp.operator = "LE" -> PyLessEq(val, comp.value)
          [] comp.operator = "EQ" -> Returns(PyEq(val, comp.value))
          [] comp.operator = "NE" -> Returns(~PyEq(val, comp.value))

\* eval_comp
EvalComp(comp, req) ==
    LET val == GetProperyOnRequest(comp.field, req)
    IN  IF val.kind = "none" THEN Returns(FALSE)
        ELSE CASE comp.operator = "GT" -> PyLess(comp.value, val)
               [] comp.operator = "GE" -> PyLessEq(comp.value, val)
               [] comp.operator = "LT" -> PyLess(val, comp.value)
               [] comp.operator = "LE" -> PyLessEq(val, comp.value)
               [] comp.operator = "EQ" -> Returns(PyEq(val, comp.value))
               [] comp.operator = "NE" -> Returns(~PyEq(val, comp.value))

RECURSIVE Evaluate(_, _)

\* evaluate of ast.py with the bodies of the Or and And cases exchanged
EvaluateExchanged(expr, request) ==
    CASE expr.type = "or" ->
            LET l == Evaluate(expr.left, request)
            IN  IF l.kind # "ok" \/ ~l.val THEN l ELSE Evaluate(expr.right, request)
      [] expr.type = "and" ->
            LET l == Evaluate(expr.left, request)
            IN  IF l.kind # "ok" \/ l.val THEN l ELSE Evaluate(expr.right, request)
      [] expr.type = "not" ->
            LET i == Evaluate(expr.inner, request)
            IN  IF i.kind # "ok" THEN i ELSE Returns(~i.val)
      [] expr.type = "comp" -> EvalComp(expr, request)
      [] OTHER -> Returns(FALSE)

\* evaluate of ast.py
Evaluate(expr, request) ==
    CASE expr.type = "or" ->
            LET l == Evaluate(expr.left, request)
            IN  IF l.kind # "ok" \/ l.val THEN l ELSE Evaluate(expr.right, request)
      [] expr.type = "and" ->
            LET l == Evaluate(expr.left, request)
            IN  IF l.kind # "ok" \/ ~l.val THEN l ELSE Evaluate(expr.right, request)
      [] expr.type = "not" ->
            LET i == Evaluate(expr.inner, request)
            IN  IF i.kind # "ok" THEN i ELSE Returns(~i.val)
      [] expr.type = "comp" -> EvalComp(expr, request)
      [] OTHER -> Returns(FALSE)

\* ------------------------------------------------------------------------
\* dsl/__init__.py: parse_rule, evaluate
\* ------------------------------------------------------------------------

\* parse_rule: the parser has no attribute stream_error, so reading it
\* raises AttributeError once the expression has been parsed
StreamError(expr) == IF expr.kind # "ok" THEN expr ELSE AttributeError

ParseRule(rule) == StreamError(Parse(rule))

\* ParserError.flatten
Flatten(e) == << e >> \o e.exceptions

\* ParserError.add.  The model holds exceptions = None as the empty list.
Add(e, next) == [ e EXCEPT !.exceptions = Append(e.exceptions, next) ]

\* try_normalize after parse_rule: the normalized text, the flattened
\* ParserError, or the exception that escapes
TryNormalizeOf(r) ==
    IF r.kind = "ok" THEN [ kind |-> "text", text |-> BuildNormalizedExpression(r.ast) ]
    ELSE IF r.kind = "ParserError" THEN [ kind |-> "errors", errors |-> Flatten(r) ]
    ELSE r

\* evaluate of dsl/__init__.py
DslEvaluate(expr, request) == Returns(FALSE)

\* ------------------------------------------------------------------------
\* routers/transactions.py: one rule of get_fraud_rule_eval
\* ------------------------------------------------------------------------

\* The body of the loop of get_fraud_rule_eval for one rule: matched, or the
\* exception that escapes the try statement (only ParserError is caught)
MatchedOf(expr, request) ==
    IF expr.kind = "ok" THEN DslEvaluate(expr.ast, request)
    ELSE IF expr.kind = "ParserError" THEN Returns(FALSE)
    ELSE expr

RuleMatched(rule, request) == MatchedOf(ParseRule(rule), request)

\* ------------------------------------------------------------------------
\* database.py: fetch_db_fraud_rules; routers/transactions.py:
\* get_fraud_rule_eval, create_transaction
\* ------------------------------------------------------------------------

\* A row of the table fraud_rule; its id is its index in the table
FraudRuleDB(priority, enabled, dsl_expression) ==
    [ priority |-> priority, enabled |-> enabled, dsl_expression |-> dsl_expression ]

\* fetch_db_fraud_rules: the ids of the enabled rows in an order the
\* database may return them in, ascending by priority, rows of equal
\* priority in any order
FetchDbFraudRules(table) ==
    { order \in [ 1..Cardinality({ i \in DOMAIN table : table[i].enabled }) -> DOMAIN table ] :
        /\ \A k \in DOMAIN order : table[order[k]].enabled
        /\ \A k \in DOMAIN order, l \in DOMAIN order :
              /\ k # l => order[k] # order[l]
              /\ k < l => table[order[k]].priority <= table[order[l]].priority }

\* FraudRuleEvaluationResult (rule_name is carried like rule_id)
FraudRuleEvaluationResult(rule_id, priority, matched) ==
    [ rule_id |-> rule_id, priority |-> priority, matched |-> matched ]

\* get_fraud_rule_eval from the rule at position k of the fetched rows on,
\* with is_fraud and results as the loop has left them; RuleEvalStep is the
\* rest of the loop body once the try statement has given m
RECURSIVE RuleEvalFrom(_, _, _, _, _, _)
RuleEvalStep(table, order, request, k, is_fraud, results, m) ==
    IF m.kind # "ok" THEN m
    ELSE RuleEvalFrom(table, order, request, k + 1, is_fraud \/ m.val,
                      Append(results,
                             FraudRuleEvaluationResult(order[k], table[order[k]].priority, m.val)))

RuleEvalFrom(table, order, request, k, is_fraud, results) ==
    IF k > Len(order)
    THEN [ kind |-> "ok", is_fraud |-> is_fraud, results |-> results ]
    ELSE RuleEvalStep(table, order, request, k, is_fraud, results,
                      RuleMatched(table[order[k]].dsl_expression, request))

\* get_fraud_rule_eval
GetFraudRuleEvalOf(table, order, request) ==
    RuleEvalFrom(table, order, request, 1, FALSE, << >>)

\* AppError.make_forbidden_error, AppError.make_not_found_error
AppError(error) == [ kind |-> "AppError", error |-> error ]

\* Transaction: is_fraud and status
Transaction(is_fraud) ==
    [ is_fraud |-> is_fraud, status |-> IF is_fraud THEN "DECLINED" ELSE "APPROVED" ]

\* create_transaction once get_fraud_rule_eval has given r: the row added to
\* the table of transactions and the TransactionDecision returned
DecisionOf(r) ==
    IF r.kind # "ok" THEN r
    ELSE [ kind |-> "ok",
           stored |-> [ transaction |-> Transaction(r.is_fraud), rule_results |-> r.results ],
           transaction |-> Transaction(r.is_fraud),
           rule_results |-> r.results ]

\* create_transaction: own is user.id = request.user_id, found is
\* get_user(session, request.user_id) is not None
CreateTransactionOf(table, order, request, own, admin, active, found) ==
    IF (~own /\ ~admin) \/ ~active THEN AppError("forbidden")
    ELSE IF ~found THEN AppError("not_found")
    ELSE DecisionOf(GetFraudRuleEvalOf(table, order, request))

\* ------------------------------------------------------------------------
\* The inputs: fact records, rule texts and syntax trees
\* ------------------------------------------------------------------------

\* The longest chain of comparisons in a rule text
MaxChain == 3

\* models.py make_eval_request: the attribute of the fact record a field names
FactAttr ==
    [ AMOUNT |-> "amount", CURRENCY |-> "currency", MERCHANT_ID |-> "merchant_id",
      IP_ADDRESS |-> "ip_address", DEVICE_ID |-> "device_id",
      USER_AGE |-> "user_age", USER_REGION |-> "user_region" ]

\* The value the fact record holds for a field (Absent for None)
Fact(field, req) == req[FactAttr[field]]

\* The fields whose facts are numbers, and those whose facts are strings
NumericFields == { "AMOUNT", "USER_AGE" }

StringFields == { "CURRENCY", "MERCHANT_ID", "IP_ADDRESS", "DEVICE_ID", "USER_REGION" }

\* The most attributes a fact record of the model holds a value for
MaxPresent == 2

\* EvaluationRequest as make_eval_request builds it: every attribute is None
\* or a value of its declared type
AllFacts ==
    [ amount : { Absent, FloatValue(50), FloatValue(150) },
      currency : { Absent, StrValue(<< "U", "S", "D" >>) },
      merchant_id : { Absent, StrValue(<< "m" >>) },
      ip_address : { Absent, StrValue(<< "1", ".", "1", ".", "1", ".", "1" >>) },
      device_id : { Absent, StrValue(<< "d" >>) },
      user_age : { Absent, IntValue(18) },
      user_region : { Absent, StrValue(<< "R", "U" >>) } ]

Facts ==
    { req \in AllFacts :
        Cardinality({ a \in DOMAIN req : req[a].kind # "none" }) <= MaxPresent }

\* The fact records of transactions that hold the two required attributes
\* only
TransactionFacts ==
    { f \in AllFacts :
        /\ f.amount.kind # "none" /\ f.currency.kind # "none"
        /\ f.merchant_id.kind = "none" /\ f.ip_address.kind = "none"
        /\ f.device_id.kind = "none" /\ f.user_age.kind = "none"
        /\ f.user_region.kind = "none" }

\* The tables of fraud rules: at most MaxRules rows, priorities from 1 to
\* MaxPriority, a rule text that parses and one that does not
MaxRules == 2

MaxPriority == 2

RuleTexts ==
    { << "a", "m", "o", "u", "n", "t", " ", ">", " ", "1", "0", "0", " ", "A", "N", "D", " ",
         "c", "u", "r", "r", "e", "n", "c", "y", " ", "=", " ", "'", "U", "S", "D", "'" >>,
      << "a", "m", "o", "u", "n", "t" >> }

FraudRules ==
    { FraudRuleDB(p, e, d) : p \in 1..MaxPriority, e \in BOOLEAN, d \in RuleTexts }

FraudRuleTables == UNION { [ 1..n -> FraudRules ] : n \in 0..MaxRules }

\* The literals of the comparisons
StringLiterals == { StrValue(<< "U", "S", "D" >>), StrValue(<< "R", "U" >>) }

NumberLiterals == { IntValue(18), IntValue(50), IntValue(100) }

Literals == StringLiterals \cup NumberLiterals

\* The source text of a comparison
CompText(field, operator, value) ==
    Field[field] \o << " " >> \o Operator[operator] \o << " " >> \o StrValueOf(value)

\* Rule texts of one comparison
ComparisonTexts ==
    { CompText(f, o, v) : f \in FieldNames, o \in OperatorNames, v \in Literals }

\* Rule texts of the form <numeric field> > <number> AND <string field> = '<string>'
ScenarioRule(nf, n, sf, s) ==
    CompText(nf, "GT", n) \o << " ", "A", "N", "D", " " >> \o CompText(sf, "EQ", s)

ScenarioTexts ==
    { ScenarioRule(nf, n, sf, s) :
        nf \in NumericFields, n \in NumberLiterals, sf \in StringFields, s \in StringLiterals }

\* The comparisons of the chains, told apart by their position
ChainComps ==
    << Comp("CURRENCY", "EQ", StrValue(<< "U", "S", "D" >>), NoSpan),
       Comp("USER_REGION", "NE", StrValue(<< "R", "U" >>), NoSpan),
       Comp("DEVICE_ID", "EQ", StrValue(<< "d" >>), NoSpan),
       Comp("MERCHANT_ID", "NE", StrValue(<< "m" >>), NoSpan) >>

ChainComp(i) == ChainComps[((i - 1) % Len(ChainComps)) + 1]

ChainCompText(i) ==
    CompText(ChainComp(i).field, ChainComp(i).operator, ChainComp(i).value)

\* c1 k1 c2 ... cn: conn[i] joins ci and ci+1, NOT precedes the comparison at
\* index not (none for 0), parentheses enclose comparisons from..to (none for
\* from = 0), preceded by NOT when gnot (then no comparison has a NOT)
RECURSIVE ChainText(_, _, _, _, _, _)
ChainText(n, conn, not, from, to, gnot) ==
    LET head == IF n = 1 THEN << >>
                ELSE ChainText(n - 1, conn, not, from, to, gnot)
                        \o << " " >> \o conn[n - 1] \o << " " >>
        open == IF from = n THEN (IF gnot THEN << "N", "O", "T", " ", "(" >> ELSE << "(" >>) ELSE << >>
        neg == IF not = n THEN << "N", "O", "T", " " >> ELSE << >>
        close == IF to = n THEN << ")" >> ELSE << >>
    IN  head \o open \o neg \o ChainCompText(n) \o close

Connectives == { << "A", "N", "D" >>, << "O", "R" >> }

\* The parenthesised ranges of a chain of n comparisons
Groups(n) == { << 0, 0 >> } \cup { << i, j >> : i \in 1..n, j \in 1..n }

\* NOT before one comparison or before the group, never both
Negations(n) ==
    { << not, g, gnot >> \in (0..n) \X { g \in Groups(n) : g[1] <= g[2] } \X BOOLEAN :
        gnot => (not = 0 /\ g[1] > 0) }

ChainTextsOf(n) ==
    { ChainText(n, conn, m[1], m[2][1], m[2][2], m[3]) :
        conn \in [ 1..(n - 1) -> Connectives ], m \in Negations(n) }

ChainTexts == UNION { ChainTextsOf(n) : n \in 1..MaxChain }

\* Rule texts a AND b OR c and a OR b AND c over these comparisons
PrecedenceComps ==
    { Comp("CURRENCY", "EQ", StrValue(<< "U", "S", "D" >>), NoSpan),
      Comp("AMOUNT", "GT", IntValue(100), NoSpan) }

TextOfComp(c) == CompText(c.field, c.operator, c.value)

AndThenOr(a, b, c) ==
    TextOfComp(a) \o << " ", "A", "N", "D", " " >> \o TextOfComp(b)
        \o << " ", "O", "R", " " >> \o TextOfComp(c)

OrThenAnd(a, b, c) ==
    TextOfComp(a) \o << " ", "O", "R", " " >> \o TextOfComp(b)
        \o << " ", "A", "N", "D", " " >> \o TextOfComp(c)

PrecedenceTexts ==
    { AndThenOr(a, b, c) : a \in PrecedenceComps, b \in PrecedenceComps, c \in PrecedenceComps }
        \cup { OrThenAnd(a, b, c) : a \in PrecedenceComps, b \in PrecedenceComps, c \in PrecedenceComps }

\* Rule texts NOT a AND b, NOT a OR b and NOT NOT a over the same comparisons
NotThenAnd(a, b) ==
    << "N", "O", "T", " " >> \o TextOfComp(a) \o << " ", "A", "N", "D", " " >> \o TextOfComp(b)

NotThenOr(a, b) ==
    << "N", "O", "T", " " >> \o TextOfComp(a) \o << " ", "O", "R", " " >> \o TextOfComp(b)

NotNot(a) == << "N", "O", "T", " ", "N", "O", "T", " " >> \o TextOfComp(a)

NotTexts ==
    { NotThenAnd(a, b) : a \in PrecedenceComps, b \in PrecedenceComps }
        \cup { NotThenOr(a, b) : a \in PrecedenceComps, b \in PrecedenceComps }
        \cup { NotNot(a) : a \in PrecedenceComps }

\* The first k words of a sequence of words, separated by one space
RECURSIVE Joined(_, _)
Joined(words, k) ==
    IF k = 0 THEN << >>
    ELSE IF k = 1 THEN words[1]
    ELSE Joined(words, k - 1) \o << " " >> \o words[k]

\* A rule the parser consumes whole, token by token, and the rule texts that
\* stop after each of its tokens
TruncationTokens ==
    << << "N", "O", "T" >>,
       << "(" >>,
       << "c", "u", "r", "r", "e", "n", "c", "y" >>,
       << "=" >>,
       << "'", "U", "S", "D", "'" >>,
       << "A", "N", "D" >>,
       << "u", "s", "e", "r", ".", "r", "e", "g", "i", "o", "n" >>,
       << "!", "=" >>,
       << "'", "R", "U", "'" >>,
       << ")" >>,
       << "O", "R" >>,
       << "d", "e", "v", "i", "c", "e", "I", "d" >>,
       << "=" >>,
       << "'", "d", "'" >> >>

TruncatedText(k) == Joined(TruncationTokens, k)

TruncatedTexts == { TruncatedText(k) : k \in 0..Len(TruncationTokens) }

\* Words in several letter cases: the keywords, and words that only begin
\* like a keyword
ConnectiveWords ==
    { << "a", "n", "d" >>,
      << "A", "n", "d" >>,
      << "a", "N", "d" >>,
      << "o", "r" >>,
      << "o", "R" >>,
      << "a", "n", "d", "r", "o", "i", "d" >>,
      << "O", "R", "E" >> }

PrefixWords ==
    { << "n", "o", "t" >>,
      << "N", "o", "t" >>,
      << "n", "O", "T" >>,
      << "n", "o", "t", "a" >> }

\* Rule texts with these words between and before comparisons, and with
\* field names in another letter case
KeywordTexts ==
    { ChainCompText(1) \o << " " >> \o w \o << " " >> \o ChainCompText(2) : w \in ConnectiveWords }
        \cup { w \o << " " >> \o ChainCompText(1) : w \in PrefixWords }
        \cup { << "C", "U", "R", "R", "E", "N", "C", "Y", " ", "=", " ", "'", "U", "S", "D", "'" >>,
            << "C", "u", "r", "r", "e", "n", "c", "y", " ", "=", " ", "'", "U", "S", "D", "'" >>,
            << "d", "e", "v", "i", "c", "e", "i", "d", " ", "=", " ", "'", "d", "'" >> }

\* Rule texts that are cut short or misspelt
MalformedTexts ==
    { << >>, << "a", "m", "o", "u", "n", "t" >>, << "a", "m", "o", "u", "n", "t", " ", ">" >>, << "N", "O", "T" >>, << "(" >>,
      << "a", "m", "o", "u", "n", "t", " ", ">", " ", "1", "2", ".", ".", "3" >>, << "a", "m", "o", "u", "n", "t", " ", "!" >>, << "A", "m", "o", "u", "n", "t", " ", "=", " ", "'", "U", "S", "D", "'" >>,
      << "c", "u", "r", "r", "e", "n", "c", "y", " ", "=", " ", "'", "U", "S", "D", "'", " ", "A", "N", "D" >>, << "c", "u", "r", "r", "e", "n", "c", "y", " ", "=", " ", "'", "U", "S", "D", "'", " ", "O", "R" >>,
      << "c", "u", "r", "r", "e", "n", "c", "y", " ", "'", "U", "S", "D", "'" >>, << "#", " ", "=", " ", "'", "U", "S", "D", "'" >>,
      << "a", "m", "o", "u", "n", "t", " ", ">", " ", "1", ".", "2", ".", "3" >>, << "a", "m", "o", "u", "n", "t", " ", "!", " ", "5" >>,
      << "c", "u", "r", "r", "e", "n", "c", "y", " ", "=", " ", "'", "U", "S", "D" >>, << "a", "m", "o", "u", "n", "t", " ", ">", " ", "=", " ", "5" >> }

Sources ==
    ComparisonTexts \cup ScenarioTexts \cup ChainTexts \cup PrecedenceTexts \cup NotTexts
        \cup TruncatedTexts \cup KeywordTexts \cup MalformedTexts

\* Syntax trees given to the normalizer and the evaluator directly
Values == Literals \cup { FloatValue(50) }

Comps == { Comp(f, o, v, NoSpan) : f \in FieldNames, o \in OperatorNames, v \in Values }

Leaves ==
    { Comp("AMOUNT", "GT", IntValue(100), NoSpan),
      Comp("CURRENCY", "EQ", StrValue(<< "U", "S", "D" >>), NoSpan),
      Comp("USER_AGE", "LT", StrValue(<< "R", "U" >>), NoSpan) }

Binary(ls, rs) ==
    { And(l, r, NoSpan) : l \in ls, r \in rs } \cup { Or(l, r, NoSpan) : l \in ls, r \in rs }

Unary(es) == { Not(e, NoSpan) : e \in es }

Shallow == Leaves \cup Binary(Leaves, Leaves) \cup Unary(Leaves)

Trees == Comps \cup Shallow \cup Binary(Shallow \ Leaves, Leaves)
            \cup Binary(Leaves, Shallow \ Leaves) \cup Unary(Shallow \ Leaves)


\* ParserError(detail, None, exceptions)
NestedError(detail, exceptions) ==
    [ ParserError(detail, NoSpan) EXCEPT !.exceptions = exceptions ]

\* Errors without nested errors
ErrorLeaves ==
    { ParserError(<< "expected a value" >>, NoSpan),
      ParserError(<< "expected an operator" >>, 3) }

\* The greatest depth at which an error is nested in another
MaxNesting == 2

\* The longest nested list that add extends
MaxExceptions == 2

\* Nested error trees up to a depth: an error holding one tree, or a leaf
\* and a tree
RECURSIVE ErrorTreesTo(_)
ErrorTreesTo(depth) ==
    IF depth = 0 THEN ErrorLeaves
    ELSE ErrorTreesTo(depth - 1)
            \cup { NestedError(WhileParsingComparison, << t >>) : t \in ErrorTreesTo(depth - 1) }
            \cup { NestedError(WhileParsingComparison, << l, t >>) :
                      l \in ErrorLeaves, t \in ErrorTreesTo(depth - 1) }

ErrorTrees == ErrorTreesTo(MaxNesting)

\* ------------------------------------------------------------------------
\* The state machine: a rule text is lexed, parsed, normalized, parsed
\* again and evaluated; a syntax tree is normalized, parsed and evaluated;
\* a transaction is made against a table of fraud rules
\* ------------------------------------------------------------------------

VARIABLES
    pc,         \* the last operation applied
    source,     \* the rule text (<< >> when the input is a syntax tree)
    parser,     \* Parser(TokenStream(source)), Unset before the constructor
    expr,       \* what Parser.expression returned or raised, or the given tree
    text,       \* build_normalized_expression(expr)
    again,      \* text parsed again, and that tree normalized
    request,    \* the fact record of the evaluation
    rules,      \* the table fraud_rule (<< >> when no transaction is made)
    result      \* what the evaluation returned or raised

vars == << pc, source, parser, expr, text, again, request, rules, result >>

Unset == [ kind |-> "unset" ]

Init ==
    /\ parser = Unset
    /\ text = << >>
    /\ again = Unset
    /\ request = Unset
    /\ result = Unset
    /\ \/ /\ pc = "new"
          /\ source \in Sources
          /\ expr = Unset
          /\ rules = << >>
       \/ /\ pc = "parsed"
          /\ source = << >>
          /\ expr \in { Parsed(t, 0) : t \in Trees }
          /\ rules = << >>
       \/ /\ pc = "rules"
          /\ source = << >>
          /\ expr = Unset
          /\ rules \in FraudRuleTables
       \/ /\ pc = "error"
          /\ source = << >>
          /\ expr \in ErrorTrees
          /\ rules = << >>

\* parser = Parser(TokenStream(source))
NewParser ==
    /\ pc = "new"
    /\ parser' = ParserInit(source)
    /\ pc' = "parser"
    /\ UNCHANGED << rules, source, expr, text, again, request, result >>

\* parser.expression()
ParseExpression ==
    /\ pc = "parser"
    /\ parser.kind = "ok"
    /\ expr' = Expression(parser.stream, 0)
    /\ pc' = "parsed"
    /\ UNCHANGED << rules, source, parser, text, again, request, result >>

\* build_normalized_expression(expr)
Normalize ==
    /\ pc = "parsed"
    /\ expr.kind = "ok"
    /\ text' = BuildNormalizedExpression(expr.ast)
    /\ pc' = "normalized"
    /\ UNCHANGED << rules, source, parser, expr, again, request, result >>

\* The normalized text parsed, and the tree it gives normalized
Normalized(e) ==
    IF e.kind # "ok" THEN e
    ELSE [ kind |-> "ok", ast |-> e.ast, text |-> BuildNormalizedExpression(e.ast) ]

Renormalize ==
    /\ pc = "normalized"
    /\ again' = Normalized(Parse(text))
    /\ pc' = "renormalized"
    /\ UNCHANGED << rules, source, parser, expr, text, request, result >>

\* evaluate(expr, request) of ast.py
EvaluateExpr ==
    /\ pc = "parsed"
    /\ expr.kind = "ok"
    /\ \E req \in Facts :
          /\ request' = req
          /\ result' = Evaluate(expr.ast, req)
    /\ pc' = "evaluated"
    /\ UNCHANGED << rules, source, parser, expr, text, again >>

\* One rule of get_fraud_rule_eval: dsl.parse_rule, then dsl.evaluate
MatchRule ==
    /\ pc = "new"
    /\ \E req \in Facts :
          /\ request' = req
          /\ result' = RuleMatched(source, req)
    /\ pc' = "matched"
    /\ UNCHANGED << rules, source, parser, expr, text, again >>

\* list(iter(TokenStream(source))): the tokens, or the exception raised
Tokenize ==
    /\ pc = "new"
    /\ result' = Iterate(source, 0, << >>)
    /\ pc' = "lexed"
    /\ UNCHANGED << rules, source, parser, expr, text, again, request >>

\* try_normalize(source): expr is what its call of parse_rule gave
TryNormalize ==
    /\ pc = "new"
    /\ expr' = ParseRule(source)
    /\ result' = TryNormalizeOf(expr')
    /\ pc' = "compiled"
    /\ UNCHANGED << rules, source, parser, text, again, request >>

\* get_fraud_rule_eval(request, session) on the table rules
GetFraudRuleEval ==
    /\ pc = "rules"
    /\ \E req \in TransactionFacts, order \in FetchDbFraudRules(rules) :
          /\ request' = req
          /\ result' = GetFraudRuleEvalOf(rules, order, req)
    /\ pc' = "rule_eval"
    /\ UNCHANGED << rules, source, parser, expr, text, again >>

\* create_transaction(request, user, session) on the table rules
CreateTransaction ==
    /\ pc = "rules"
    /\ \E req \in TransactionFacts, order \in FetchDbFraudRules(rules),
          own \in BOOLEAN, admin \in BOOLEAN, active \in BOOLEAN, found \in BOOLEAN :
          /\ request' = req
          /\ result' = CreateTransactionOf(rules, order, req, own, admin, active, found)
    /\ pc' = "transaction"
    /\ UNCHANGED << rules, source, parser, expr, text, again >>

\* error.add(next)
AddError ==
    /\ pc = "error"
    /\ Len(expr.exceptions) < MaxExceptions
    /\ \E next \in ErrorLeaves : expr' = Add(expr, next)
    /\ UNCHANGED << rules, source, parser, text, again, request, result, pc >>

\* result = error.flatten()
FlattenError ==
    /\ pc = "error"
    /\ result' = [ kind |-> "errors", errors |-> Flatten(expr) ]
    /\ pc' = "flattened"
    /\ UNCHANGED << rules, source, parser, expr, text, again, request >>

Next ==
    \/ GetFraudRuleEval
    \/ CreateTransaction
    \/ Tokenize
    \/ TryNormalize
    \/ NewParser
    \/ ParseExpression
    \/ Normalize
    \/ Renormalize
    \/ EvaluateExpr
    \/ MatchRule
    \/ AddError
    \/ FlattenError

Spec == Init /\ [][Next]_vars

\* ------------------------------------------------------------------------
\* The same run, one character of TokenStream at a time
\* ------------------------------------------------------------------------

\* TokenStream.rewind, with one step back too many
RewindTwice(position) == IF position > 1 THEN position - 2 ELSE 0

\* TokenStream.rewind
Rewind(position) == IF position > 0 THEN position - 1 ELSE position

\* TokenStream(source) inside list(iter(stream)): the cursor, the tokens
\* yielded so far, the method whose loop is running and its locals
Scanning(position, stream, method, str_start, caught_dot) ==
    [ kind |-> "scanning", position |-> position, stream |-> stream,
      method |-> method, str_start |-> str_start, caught_dot |-> caught_dot ]

\* tok._make_keyword(); yield tok, back in skip_whitespace at position
Yielded(position, tok) ==
    Scanning(position, Append(parser.stream, MakeKeyword(tok)), "skip_whitespace", 0, FALSE)

\* The character advance() returns next
Ahead == At(source, parser.position)

AtEnd == parser.position >= Len(source)

In(method) == pc = "scanning" /\ parser.method = method

\* A source has no more tokens than characters
MayYield == Len(parser.stream) < Len(source)

\* What list(iter(stream)) leaves alone
Others == UNCHANGED << rules, source, expr, text, again, request, result >>

InitRun ==
    /\ pc = "scanning"
    /\ source \in Sources
    /\ parser = Scanning(0, << >>, "skip_whitespace", 0, FALSE)
    /\ expr = Unset
    /\ text = << >>
    /\ again = Unset
    /\ request = Unset
    /\ result = Unset
    /\ rules = << >>

\* skip_whitespace: advance() returns a space
SkipSpace ==
    /\ In("skip_whitespace")
    /\ ~AtEnd
    /\ IsSpace(Ahead)
    /\ parser' = [ parser EXCEPT !.position = @ + 1 ]
    /\ UNCHANGED pc
    /\ Others

\* skip_whitespace: advance() returns None, the iteration ends and
\* Parser.__init__ keeps the list
StopIteration ==
    /\ In("skip_whitespace")
    /\ AtEnd
    /\ parser' = StreamOf([ kind |-> "ok", tokens |-> parser.stream ])
    /\ pc' = "scanned"
    /\ Others

\* _next_token enters _identifier, _number or _string after the first
\* character of the token
EnterToken ==
    /\ In("skip_whitespace")
    /\ ~AtEnd
    /\ \/ /\ IsAlpha(Ahead)
          /\ parser' = [ parser EXCEPT !.position = @ + 1, !.method = "_identifier",
                                       !.str_start = parser.position ]
       \/ /\ IsNumeric(Ahead)
          /\ parser' = [ parser EXCEPT !.position = @ + 1, !.method = "_number",
                                       !.str_start = parser.position ]
       \/ /\ Ahead = "'"
          /\ parser' = [ parser EXCEPT !.position = @ + 1, !.method = "_string",
                                       !.str_start = parser.position + 1 ]
    /\ UNCHANGED pc
    /\ Others

FallsBack == ~IsSpace(Ahead) /\ ~IsAlpha(Ahead) /\ ~IsNumeric(Ahead) /\ Ahead # "'"

\* _next_token calls _fallback, which returns a token
FallbackReturn ==
    /\ In("skip_whitespace")
    /\ ~AtEnd
    /\ FallsBack
    /\ Fallback(source, parser.position + 1, Ahead).kind = "tok"
    /\ MayYield
    /\ parser' = Yielded(Fallback(source, parser.position + 1, Ahead).pos,
                         Fallback(source, parser.position + 1, Ahead).tok)
    /\ UNCHANGED pc
    /\ Others

\* _fallback raises: Parser.__init__ catches a ParserError and lets any
\* other exception through
FallbackRaise ==
    /\ In("skip_whitespace")
    /\ ~AtEnd
    /\ FallsBack
    /\ Fallback(source, parser.position + 1, Ahead).kind # "tok"
    /\ parser' = StreamOf(Fallback(source, parser.position + 1, Ahead))
    /\ pc' = "scanned"
    /\ Others

\* _identifier: advance() returns a letter or a dot
IdentifierAdvance ==
    /\ In("_identifier")
    /\ ~AtEnd
    /\ (IsAlpha(Ahead) \/ Ahead = ".")
    /\ parser' = [ parser EXCEPT !.position = @ + 1 ]
    /\ UNCHANGED pc
    /\ Others

\* The cursor when the loop of _identifier or _number ends: where it is
\* when advance() returns None, after advance() and rewind() otherwise
LoopEnd == IF AtEnd THEN parser.position ELSE Rewind(parser.position + 1)

\* _identifier: the loop ends and the token is returned
IdentifierReturn ==
    /\ In("_identifier")
    /\ IF AtEnd THEN TRUE ELSE ~(IsAlpha(Ahead) \/ Ahead = ".")
    /\ MayYield
    /\ parser' = Yielded(LoopEnd, Token("IDENTIFIER",
                                        Slice(source, parser.str_start, LoopEnd),
                                        parser.str_start))
    /\ UNCHANGED pc
    /\ Others

\* _number: advance() returns a digit, or the first dot
NumberAdvance ==
    /\ In("_number")
    /\ ~AtEnd
    /\ (IsNumeric(Ahead) \/ (Ahead = "." /\ ~parser.caught_dot))
    /\ parser' = [ parser EXCEPT !.position = @ + 1,
                                 !.caught_dot = @ \/ Ahead = "." ]
    /\ UNCHANGED pc
    /\ Others

\* _number: advance() returns a second dot
NumberRaise ==
    /\ In("_number")
    /\ ~AtEnd
    /\ Ahead = "." /\ parser.caught_dot
    /\ parser' = StreamOf(LexError("double dot found while parsing a number",
                                   parser.position + 1))
    /\ pc' = "scanned"
    /\ Others

\* _number: the loop ends and the token is returned
NumberReturn ==
    /\ In("_number")
    /\ IF AtEnd THEN TRUE ELSE ~(IsNumeric(Ahead) \/ Ahead = ".")
    /\ MayYield
    /\ parser' = Yielded(LoopEnd, Token(IF parser.caught_dot THEN "FLOAT" ELSE "INT",
                                        Slice(source, parser.str_start, LoopEnd),
                                        parser.str_start))
    /\ UNCHANGED pc
    /\ Others

\* _string: advance() returns a character that is not the quote
StringAdvance ==
    /\ In("_string")
    /\ ~AtEnd
    /\ Ahead # "'"
    /\ parser' = [ parser EXCEPT !.position = @ + 1 ]
    /\ UNCHANGED pc
    /\ Others

\* The cursor when the loop of _string ends: after the closing quote, or at
\* the end of the source
StringLoopEnd == IF AtEnd THEN parser.position ELSE parser.position + 1

\* _string: advance() returns the quote or None and the token is returned
StringReturn ==
    /\ In("_string")
    /\ IF AtEnd THEN TRUE ELSE Ahead = "'"
    /\ MayYield
    /\ parser' = Yielded(StringLoopEnd, Token("STRING",
                                             Slice(source, parser.str_start, StringLoopEnd - 1),
                                             parser.str_start - 1))
    /\ UNCHANGED pc
    /\ Others

\* parser.expression(), or the exception of Parser(...) in its place
RunExpression ==
    /\ pc = "scanned"
    /\ expr' = ExpressionFrom(parser)
    /\ pc' = "finished"
    /\ UNCHANGED << rules, source, parser, text, again, request, result >>

NextRun ==
    \/ SkipSpace
    \/ StopIteration
    \/ EnterToken
    \/ FallbackReturn
    \/ FallbackRaise
    \/ IdentifierAdvance
    \/ IdentifierReturn
    \/ NumberAdvance
    \/ NumberRaise
    \/ NumberReturn
    \/ StringAdvance
    \/ StringReturn
    \/ RunExpression

\* A step of list(iter(stream))
Scan == pc = "scanning" /\ NextRun

\* The step in which parser.expression() returns or raises
Return == pc = "scanned" /\ pc' = "finished"

\* The interpreter runs the one thread of the call until it returns or
\* raises: a step that can be taken is taken.
RunSpec == InitRun /\ [][NextRun]_vars /\ WF_vars(Scan) /\ WF_pc(Return)

\* ------------------------------------------------------------------------
\* Properties
\* ------------------------------------------------------------------------

\* The input was a rule text and Parser.expression returned a tree for it
ParsedFromText == parser.kind = "ok" /\ expr.kind = "ok"

\* C1: for every rule text on which Parser.expression returns a tree, the
\* normalized text of the tree parses, and normalizing the tree parsed from
\* it gives the same text again.
C1_RoundTrip ==
    (pc = "renormalized" /\ ParsedFromText)
        => (again.kind = "ok" /\ again.text = text)

\* The numeric attribute is greater than the number and the string
\* attribute equals the string
ScenarioHolds(nf, n, sf, s, req) ==
    /\ Fact(nf, req).kind # "none"
    /\ Fact(nf, req).n > n.n
    /\ Fact(sf, req) = s

\* C2: for every rule <numeric field> > <number> AND <string field> =
\* '<string>', dsl.parse_rule returns a tree and dsl.evaluate of the tree is
\* true exactly when the numeric fact is greater than the number and the
\* string fact equals the string.
C2_CompileThenEvaluate ==
    pc = "matched" =>
        \A nf \in NumericFields, n \in NumberLiterals, sf \in StringFields, s \in StringLiterals :
            source = ScenarioRule(nf, n, sf, s)
                => result = Returns(ScenarioHolds(nf, n, sf, s, request))

\* C3: evaluate of ast.py returns a boolean, and raises nothing, for every
\* tree Parser.expression returns and every fact record.
C3_EvaluationTotal ==
    (pc = "evaluated" /\ ParsedFromText) => result.kind = "ok"

\* A comparison has been evaluated on a fact record without a value for its
\* field
MissingFactEvaluated ==
    /\ pc = "evaluated"
    /\ expr.ast.type = "comp"
    /\ Fact(expr.ast.field, request).kind = "none"

\* C4: a comparison whose field has no value in the fact record evaluates to
\* false, for every field and every operator, and raises nothing.
C4_MissingFactIsFalse == MissingFactEvaluated => result = Returns(FALSE)

\* C4 witness: a != comparison was evaluated on a fact record without its field
C4_Witness ==
    /\ MissingFactEvaluated
    /\ expr.ast.operator = "NE"
    /\ result = Returns(FALSE)

\* The literal is of the kind of the field
LiteralFits(field, c) ==
    IF field \in NumericFields THEN IsNumber(c) ELSE c.kind = "str"

\* The operator applied to the fact v and the literal c
Applied(operator, v, c) ==
    CASE operator = "EQ" -> IF IsNumber(v) THEN v.n = c.n ELSE v.s = c.s
      [] operator = "NE" -> IF IsNumber(v) THEN v.n # c.n ELSE v.s # c.s
      [] operator = "GT" -> v.n > c.n
      [] operator = "GE" -> v.n >= c.n
      [] operator = "LT" -> v.n < c.n
      [] operator = "LE" -> v.n <= c.n

\* C5: when the fact record holds a value v for the field of a comparison
\* and the literal c is of the field's kind, eval_comp returns the operator
\* applied to (v, c): equality and inequality for every field, the four
\* orderings by numeric order.
C5_ComparisonOnPresentFacts ==
    ( /\ pc = "evaluated"
      /\ expr.ast.type = "comp"
      /\ Fact(expr.ast.field, request).kind # "none"
      /\ LiteralFits(expr.ast.field, expr.ast.value)
      /\ expr.ast.operator \in { "EQ", "NE" } \/ expr.ast.field \in NumericFields )
        => result = Returns(Applied(expr.ast.operator,
                                    Fact(expr.ast.field, request), expr.ast.value))

\* Both operands of the evaluated And or Or node evaluate to booleans
OperandsReturn ==
    /\ pc = "evaluated"
    /\ expr.ast.type \in { "and", "or" }
    /\ Evaluate(expr.ast.left, request).kind = "ok"
    /\ Evaluate(expr.ast.right, request).kind = "ok"

\* The operand of the evaluated Not node evaluates to a boolean
InnerReturns ==
    /\ pc = "evaluated"
    /\ expr.ast.type = "not"
    /\ Evaluate(expr.ast.inner, request).kind = "ok"

\* C6: when the operands evaluate to booleans, evaluate of And(l, r) is the
\* conjunction of the operands' values, of Or(l, r) their disjunction, and
\* of Not(e) the negation of the operand's value.
C6_Connectives ==
    /\ (OperandsReturn /\ expr.ast.type = "and")
          => result = Returns(Evaluate(expr.ast.left, request).val
                                /\ Evaluate(expr.ast.right, request).val)
    /\ (OperandsReturn /\ expr.ast.type = "or")
          => result = Returns(Evaluate(expr.ast.left, request).val
                                \/ Evaluate(expr.ast.right, request).val)
    /\ InnerReturns => result = Returns(~Evaluate(expr.ast.inner, request).val)

\* C6 witness: an And node with a true left and a false right operand was
\* evaluated to false
C6_Witness ==
    /\ OperandsReturn
    /\ expr.ast.type = "and"
    /\ Evaluate(expr.ast.left, request).val
    /\ ~Evaluate(expr.ast.right, request).val
    /\ result = Returns(FALSE)

\* The fields the rule language treats as strings, and the ordering operators
StringKindFields == { "CURRENCY", "IP_ADDRESS", "DEVICE_ID", "USER_REGION" }

OrderingOperators == { "GT", "LT", "LE", "GE" }

\* C7: a comparison of a string-kind field with an operator other than = and
\* != makes Parser.expression fail with a ParserError, whatever the literal.
C7_OperatorFieldCompatibility ==
    (pc = "parsed" /\ parser.kind = "ok") =>
        \A f \in StringKindFields, o \in OrderingOperators, v \in Literals :
            source = CompText(f, o, v) => expr.kind = "ParserError"

\* C8: a comparison of a numeric-kind field with a string literal, or of a
\* string-kind field with a number literal, makes Parser.expression fail
\* with a ParserError.
C8_ValueFieldCompatibility ==
    (pc = "parsed" /\ parser.kind = "ok") =>
        \A f \in NumericFields \cup StringKindFields, o \in OperatorNames, v \in Literals :
            (source = CompText(f, o, v) /\ (f \in NumericFields) # IsNumber(v))
                => expr.kind = "ParserError"

\* A tree without its spans
RECURSIVE Strip(_)
Strip(e) ==
    CASE e.type = "comp" -> Comp(e.field, e.operator, e.value, NoSpan)
      [] e.type = "not" -> Not(Strip(e.inner), NoSpan)
      [] e.type = "and" -> And(Strip(e.left), Strip(e.right), NoSpan)
      [] e.type = "or" -> Or(Strip(e.left), Strip(e.right), NoSpan)

\* c1 k c2 k ... k cn, and the left-nested tree of its n comparisons
PlainChain(n, k) == ChainText(n, [ i \in 1..(n - 1) |-> k ], 0, 0, 0, FALSE)

RECURSIVE LeftFold(_, _)
LeftFold(n, k) ==
    IF n = 1 THEN ChainComp(1)
    ELSE IF k = << "O", "R" >> THEN Or(LeftFold(n - 1, k), ChainComp(n), NoSpan)
    ELSE And(LeftFold(n - 1, k), ChainComp(n), NoSpan)

\* C9: for n >= 2 comparisons joined by OR (by AND), Parser.expression
\* returns the left-nested Or (And) tree holding all n comparisons in source
\* order.
C9_ChainsLeftFolded ==
    (pc = "parsed" /\ parser.kind = "ok") =>
        \A n \in 2..MaxChain, k \in Connectives :
            source = PlainChain(n, k)
                => (expr.kind = "ok" /\ Strip(expr.ast) = LeftFold(n, k))

\* C10: Parser.expression returns Or(And(a, b), c) for a AND b OR c and
\* Or(a, And(b, c)) for a OR b AND c, and build_normalized_expression
\* renders Or(And(a, b), c) as a AND b OR c without parentheses.
C10_Precedence ==
    \A a \in PrecedenceComps, b \in PrecedenceComps, c \in PrecedenceComps :
        /\ (pc = "parsed" /\ parser.kind = "ok" /\ source = AndThenOr(a, b, c))
              => (expr.kind = "ok"
                    /\ Strip(expr.ast) = Or(And(a, b, NoSpan), c, NoSpan))
        /\ (pc = "parsed" /\ parser.kind = "ok" /\ source = OrThenAnd(a, b, c))
              => (expr.kind = "ok"
                    /\ Strip(expr.ast) = Or(a, And(b, c, NoSpan), NoSpan))
        /\ (pc = "normalized" /\ Strip(expr.ast) = Or(And(a, b, NoSpan), c, NoSpan))
              => text = AndThenOr(a, b, c)

\* The number of occurrences of the character ch in s
RECURSIVE CountOf(_, _)
CountOf(s, ch) ==
    IF s = << >> THEN 0
    ELSE (IF Head(s) = ch THEN 1 ELSE 0) + CountOf(Tail(s), ch)

\* The Not nodes of a tree, and its Or nodes that are a child of an And node
RECURSIVE Nots(_)
Nots(e) ==
    CASE e.type = "comp" -> 0
      [] e.type = "not" -> 1 + Nots(e.inner)
      [] OTHER -> Nots(e.left) + Nots(e.right)

RECURSIVE OrsUnderAnd(_)
OrsUnderAnd(e) ==
    CASE e.type = "comp" -> 0
      [] e.type = "not" -> OrsUnderAnd(e.inner)
      [] e.type = "or" -> OrsUnderAnd(e.left) + OrsUnderAnd(e.right)
      [] e.type = "and" ->
            (IF e.left.type = "or" THEN 1 ELSE 0) + (IF e.right.type = "or" THEN 1 ELSE 0)
                + OrsUnderAnd(e.left) + OrsUnderAnd(e.right)

\* (a OR b) AND c
OrThenAndGrouped(a, b, c) ==
    << "(" >> \o TextOfComp(a) \o << " ", "O", "R", " " >> \o TextOfComp(b)
        \o << ")", " ", "A", "N", "D", " " >> \o TextOfComp(c)

\* C11: build_normalized_expression emits one pair of parentheses for every
\* Or node that is a child of an And node and one for every Not node, and no
\* other parenthesis; And(Or(a, b), c) is rendered as (a OR b) AND c.
C11_Parenthesization ==
    pc = "normalized" =>
        /\ CountOf(text, "(") = Nots(expr.ast) + OrsUnderAnd(expr.ast)
        /\ CountOf(text, ")") = Nots(expr.ast) + OrsUnderAnd(expr.ast)
        /\ \A a \in Leaves, b \in Leaves, c \in Leaves :
              Strip(expr.ast) = And(Or(a, b, NoSpan), c, NoSpan)
                  => text = OrThenAndGrouped(a, b, c)

\* C11 witness: an And node with an Or on its left and a comparison on its
\* right was rendered with the Or in parentheses
C11_Witness ==
    /\ pc = "normalized"
    /\ expr.ast.type = "and"
    /\ expr.ast.left.type = "or"
    /\ expr.ast.right.type = "comp"
    /\ Head(text) = "("
    /\ CountOf(text, "(") = 1

\* C12: for every input string try_normalize returns the normalized text or
\* a non-empty list of ParserError and lets no exception escape, and
\* parse_rule returns a tree or raises ParserError and nothing else.
C12_CompileOutcomeClosed ==
    pc = "compiled" =>
        /\ expr.kind \in { "ok", "ParserError" }
        /\ \/ result.kind = "text"
           \/ result.kind = "errors" /\ Len(result.errors) > 0

\* The zero-based offsets of the dots of a number literal of s
NumberDots(s) ==
    { i \in 1..(Len(s) - 1) : At(s, i) = "." /\ (IsNumeric(At(s, i - 1)) \/ At(s, i - 1) = ".") }

\* The offset of the second dot of a number literal with two dots
SecondDot(s) == CHOOSE i \in NumberDots(s) : \A j \in NumberDots(s) : j <= i

\* C13: compiling a rule whose number literal holds a second dot fails with
\* a ParserError positioned at the zero-based offset of that dot, both where
\* the lexer raises it and in what the caller of the compile step receives.
C13_DoubleDotPosition ==
    Cardinality(NumberDots(source)) = 2 =>
        /\ pc = "lexed"
              => (result.kind = "ParserError" /\ result.position = SecondDot(source))
        /\ pc = "compiled"
              => /\ result.kind = "errors"
                 /\ \E i \in 1..Len(result.errors) :
                        result.errors[i].position = SecondDot(source)

\* The spans of the tokens of a stream
TokenSpans(stream) == { stream[i].span : i \in 1..Len(stream) }

\* C14: every ParserError raised by Parser.expression has a non-empty detail
\* and a position that is the span of a token of the stream, the one at
\* which parsing failed.
C14_ErrorsCarryDetailAndSpan ==
    (pc = "parsed" /\ expr.kind = "ParserError") =>
        /\ expr.detail # << >>
        /\ expr.position \in TokenSpans(parser.stream)

\* C15: when a comparison fails to parse in its field, operator or value,
\* the ParserError that Parser.expression raises holds that error as a
\* nested cause, in its nested list and in flatten, under the context
\* "while parsing comparison".
C15_NestedCausePreserved ==
    (pc = "parsed" /\ expr.kind = "ParserError") =>
        /\ Len(expr.exceptions) >= 1
        /\ Len(Flatten(expr)) >= 2
        /\ \E i \in 1..Len(Flatten(expr)) :
              /\ Flatten(expr)[i].detail # << >>
              /\ Head(Flatten(expr)[i].detail) = Head(WhileParsingComparison)

\* C18: a >=, <= or != in the source gives exactly one GE, LE or NE token
\* of those two characters, and a > or < whose next character is not =
\* gives a GT or LT token of that one character.
C18_TwoCharacterOperators ==
    pc = "lexed" =>
        /\ \A f \in FieldNames, o \in OperatorNames, v \in Literals :
              source = CompText(f, o, v)
                  => /\ result.kind = "ok"
                     /\ Len(result.tokens) = 3
                     /\ result.tokens[2].repr = o
                     /\ result.tokens[2].data = Operator[o]
        /\ \A i \in 0..(Len(source) - 2) :
              (At(source, i) \in { ">", "<" } /\ At(source, i + 1) # "=" /\ result.kind = "ok")
                  => \E k \in 1..Len(result.tokens) :
                        /\ result.tokens[k].span = i
                        /\ result.tokens[k].repr \in { "GT", "LT" }

\* C19: a ! that is not followed by = (the last character of the input
\* included) makes tokenization fail with a ParserError positioned at the !,
\* and with no other fault.
C19_BareBang ==
    pc = "lexed" =>
        \A i \in 0..(Len(source) - 1) :
            (At(source, i) = "!" /\ (i + 1 = Len(source) \/ At(source, i + 1) # "="))
                => (result.kind = "ParserError" /\ result.position = i)

\* The zero-based offsets of the quotes of s, and the end of the string
\* opened at offset q: its closing quote, or the end of the input
Quotes(s) == { i \in 0..(Len(s) - 1) : At(s, i) = "'" }

StringClose(s, q) ==
    IF \E c \in Quotes(s) : c > q
    THEN CHOOSE c \in Quotes(s) : c > q /\ \A d \in Quotes(s) : d > q => c <= d
    ELSE Len(s)

\* C20: the text of the STRING token of a string opened by a quote is the
\* characters after the opening quote up to the closing quote, or up to the
\* end of the input when there is no closing quote, and the lexer does not
\* fail on the missing quote.
C20_StringTokens ==
    pc = "lexed" =>
        /\ result.kind = "ok" =>
              \A k \in 1..Len(result.tokens) :
                  result.tokens[k].repr = "STRING"
                      => result.tokens[k].data
                            = Slice(source, result.tokens[k].span + 1,
                                    StringClose(source, result.tokens[k].span))
        /\ \A q \in Quotes(source) :
              (Cardinality(Quotes(source)) = 1
                  /\ Iterate(Slice(source, 0, q), 0, << >>).kind = "ok")
                  => result.kind = "ok"

\* The ids of the enabled rows of the table rules
EnabledRules == { i \in DOMAIN rules : rules[i].enabled }

\* C16: get_fraud_rule_eval evaluates every enabled rule and returns one
\* result per enabled rule, in ascending order of priority.
C16_RuleOrdering ==
    pc = "rule_eval" =>
        /\ result.kind = "ok"
        /\ Len(result.results) = Cardinality(EnabledRules)
        /\ { result.results[k].rule_id : k \in 1..Len(result.results) } = EnabledRules
        /\ \A k \in 1..Len(result.results), l \in 1..Len(result.results) :
              k < l => result.results[k].priority <= result.results[l].priority

\* C17: get_fraud_rule_eval returns is_fraud true exactly when one of the
\* results it returns has matched true, and create_transaction, once the
\* user is allowed and found, stores the transaction with is_fraud true and
\* status DECLINED in that case, with is_fraud false and status APPROVED
\* otherwise.
C17_DecisionIsOrOverMatches ==
    /\ pc = "rule_eval" =>
          /\ result.kind = "ok"
          /\ result.is_fraud
                <=> \E k \in 1..Len(result.results) : result.results[k].matched
    /\ (pc = "transaction" /\ result.kind # "AppError") =>
          /\ result.kind = "ok"
          /\ result.stored.transaction
                = Transaction(\E k \in 1..Len(result.stored.rule_results) :
                                  result.stored.rule_results[k].matched)

\* The parser needs a further token after the last one of the stream: the
\* stream is empty, or the rule text stops after a token that is neither a
\* value nor a closing parenthesis
TokensRunOut ==
    /\ pc = "parsed"
    /\ parser.kind = "ok"
    /\ \/ parser.stream = << >>
       \/ /\ source \in TruncatedTexts
          /\ parser.stream[Len(parser.stream)].repr \notin { "STRING", "RPAREN" }

\* C21: past the last token Parser.get and Parser.consume return no token,
\* and when the tokens run out - at a field, an operator, a value, after
\* NOT, after (, after AND or OR - Parser.expression fails with a
\* ParserError and no other fault.
C21_ExhaustedStream ==
    /\ (pc = "parsed" /\ parser.kind = "ok") =>
          /\ Get(parser.stream, Len(parser.stream)).repr = "None"
          /\ \A r \in { "NOT", "LPAREN", "RPAREN", "AND", "OR" } :
                /\ Consume(parser.stream, Len(parser.stream), r).tok.repr = "None"
                /\ Consume(parser.stream, Len(parser.stream), r).pos = Len(parser.stream)
    /\ TokensRunOut => expr.kind = "ParserError"

\* C21 witness: the tokens ran out after AND and the parser raised ParserError
C21_Witness ==
    /\ TokensRunOut
    /\ parser.stream # << >>
    /\ parser.stream[Len(parser.stream)].repr = "AND"
    /\ expr.kind = "ParserError"

\* The kind of token a word is: a keyword when its lower-cased text is one
KeywordOf(word) ==
    IF Lower(word) = << "n", "o", "t" >> THEN "NOT"
    ELSE IF Lower(word) = << "a", "n", "d" >> THEN "AND"
    ELSE IF Lower(word) = << "o", "r" >> THEN "OR"
    ELSE "IDENTIFIER"

\* The longest run of letters and dots of the source that starts at offset i
RECURSIVE WordEnd(_, _)
WordEnd(s, i) ==
    IF i < Len(s) /\ (IsAlpha(At(s, i)) \/ At(s, i) = ".") THEN WordEnd(s, i + 1) ELSE i

WordAt(s, i) == Slice(s, i, WordEnd(s, i))

\* C22: a token that starts with a letter is AND, OR or NOT exactly when its
\* lower-cased text is and, or, not, and IDENTIFIER otherwise, and keeps the
\* letter case of the source; a rule text that starts with an identifier
\* that is not, letter for letter, a field name fails to parse.
C22_KeywordsAndFieldNames ==
    /\ (pc = "lexed" /\ result.kind = "ok") =>
          \A k \in 1..Len(result.tokens) :
              IsAlpha(At(source, result.tokens[k].span)) =>
                  /\ result.tokens[k].data = WordAt(source, result.tokens[k].span)
                  /\ result.tokens[k].repr = KeywordOf(WordAt(source, result.tokens[k].span))
    /\ (pc = "parsed" /\ parser.kind = "ok" /\ parser.stream # << >>) =>
          ((/\ parser.stream[1].repr = "IDENTIFIER"
            /\ \A f \in FieldNames : Field[f] # parser.stream[1].data)
              => expr.kind = "ParserError")

\* C22 witness: a keyword written in mixed case was reclassified and kept
\* its spelling
C22_Witness ==
    /\ pc = "lexed"
    /\ result.kind = "ok"
    /\ \E k \in 1..Len(result.tokens) :
          /\ result.tokens[k].repr = "AND"
          /\ result.tokens[k].data = << "a", "N", "d" >>

\* C22 witness of the second part: a field name in another letter case
C22_WitnessField ==
    /\ pc = "parsed"
    /\ parser.kind = "ok"
    /\ parser.stream # << >>
    /\ parser.stream[1].repr = "IDENTIFIER"
    /\ Lower(parser.stream[1].data) = Lower(Field.CURRENCY)
    /\ parser.stream[1].data # Field.CURRENCY
    /\ expr.kind = "ParserError"

\* The first character of a token in the source: the opening quote of a
\* string, the first character of the text of any other token
FirstChar(tok) == IF tok.repr = "STRING" THEN "'" ELSE Head(tok.data)

\* C23: the span of every token of a rule text that lexes is the offset in
\* the source of the token's first character, the opening quote for a
\* string, and the spans of successive tokens strictly increase.
C23_TokenSpans ==
    (pc = "lexed" /\ result.kind = "ok") =>
        /\ \A k \in 1..Len(result.tokens) :
              /\ result.tokens[k].span \in 0..(Len(source) - 1)
              /\ At(source, result.tokens[k].span) = FirstChar(result.tokens[k])
        /\ \A k \in 1..(Len(result.tokens) - 1) :
              result.tokens[k].span < result.tokens[k + 1].span

\* C23 witness: a lexed rule text with an identifier, a keyword, a
\* two-character operator, a string and a parenthesis
C23_Witness ==
    /\ pc = "lexed"
    /\ result.kind = "ok"
    /\ { "IDENTIFIER", "NOT", "NE", "STRING", "RPAREN" }
          \subseteq { result.tokens[k].repr : k \in 1..Len(result.tokens) }

\* C24: Parser.expression returns And(Not(a), b) for NOT a AND b,
\* Or(Not(a), b) for NOT a OR b and Not(Not(a)) for NOT NOT a.
C24_NotBindsTighter ==
    \A a \in PrecedenceComps, b \in PrecedenceComps :
        /\ (pc = "parsed" /\ parser.kind = "ok" /\ source = NotThenAnd(a, b))
              => (expr.kind = "ok"
                    /\ Strip(expr.ast) = And(Not(a, NoSpan), b, NoSpan))
        /\ (pc = "parsed" /\ parser.kind = "ok" /\ source = NotThenOr(a, b))
              => (expr.kind = "ok"
                    /\ Strip(expr.ast) = Or(Not(a, NoSpan), b, NoSpan))
        /\ (pc = "parsed" /\ parser.kind = "ok" /\ source = NotNot(a))
              => (expr.kind = "ok"
                    /\ Strip(expr.ast) = Not(Not(a, NoSpan), NoSpan))

\* The errors of a nested error tree that have no nested errors
RECURSIVE LeafErrors(_)
LeafErrors(e) ==
    IF e.exceptions = << >> THEN { e }
    ELSE UNION { LeafErrors(e.exceptions[i]) : i \in 1..Len(e.exceptions) }

\* C25: the list ParserError.flatten returns contains every error of the
\* nested error tree that has no nested errors, at any nesting depth.
C25_FlattenHoldsEveryLeaf ==
    pc = "flattened" =>
        LeafErrors(expr) \subseteq { result.errors[i] : i \in 1..Len(result.errors) }

\* A parser method that returned from a position left the position at or
\* after it
PositionKept(r, position) == r.kind = "ok" => r.pos >= position

\* C26: tokenization followed by Parser.expression comes to an end for
\* every rule text; the lexer's cursor stays inside the source, is past the
\* first character of every token it has emitted and so never behind their
\* number, and no step moves it back, rewind included; and no parser method
\* leaves the position before the one it was entered at.
C26_Termination ==
    /\ <>(pc = "finished")
    /\ [](pc = "scanning"
              => (/\ parser.position \in 0..Len(source)
                  /\ Len(parser.stream) <= parser.position
                  /\ parser.stream # << >>
                        => parser.stream[Len(parser.stream)].span < parser.position))
    /\ [][(pc = "scanning" /\ pc' = "scanning")
              => parser'.position >= parser.position]_vars
    /\ []((pc \in { "scanned", "finished" } /\ parser.kind = "ok")
              => \A p \in 0..Len(parser.stream) :
                    /\ PositionKept(Expression(parser.stream, p), p)
                    /\ PositionKept(Term(parser.stream, p), p)
                    /\ PositionKept(Factor(parser.stream, p), p)
                    /\ PositionKept(TakeComp(parser.stream, p), p)
                    /\ Consume(parser.stream, p, "RPAREN").pos >= p)

\* C26 witness: the run of a rule text came to its end after the lexer
\* rewound behind identifiers and the parser returned a tree
C26_Witness ==
    /\ pc = "finished"
    /\ expr.kind = "ok"
    /\ Len(parser.stream) >= 7
    /\ \E k \in 1..Len(parser.stream) : parser.stream[k].repr = "IDENTIFIER"

\* C27: whenever Parser.expression returns a tree for a rule text, the
\* position of the parser is the number of tokens of the rule.
C27_NoTrailingInput ==
    (pc = "parsed" /\ ParsedFromText) => expr.pos = Len(parser.stream)

\* C28: for every rule text on which Parser.expression returns a tree e and
\* every fact record on which evaluate(e) returns a boolean, the normalized
\* text of e parses to a tree on which evaluate returns the same boolean.
C28_NormalizationPreservesMeaning ==
    (pc = "renormalized" /\ ParsedFromText) =>
        \A f \in Facts :
            Evaluate(expr.ast, f).kind = "ok"
                => (/\ again.kind = "ok"
                    /\ Evaluate(again.ast, f) = Evaluate(expr.ast, f))

\* C29: get_fraud_rule_eval returns, and returns exactly one result for each
\* enabled rule whatever the rule texts are; the result of a rule whose
\* text does not compile has matched = False.
C29_OneResultPerRule ==
    pc = "rule_eval" =>
        /\ result.kind = "ok"
        /\ \A i \in EnabledRules :
              Cardinality({ k \in 1..Len(result.results) : result.results[k].rule_id = i }) = 1
        /\ \A k \in 1..Len(result.results) :
              Parse(rules[result.results[k].rule_id].dsl_expression).kind # "ok"
                  => ~result.results[k].matched

\* The trees of the model that have the normalized text of the state
SameText == { e \in Trees : BuildNormalizedExpression(e) = text }

\* evaluate returns the same on both trees where it returns on both
SameMeaning(e1, e2) ==
    \A f \in Facts :
        (Evaluate(e1, f).kind = "ok" /\ Evaluate(e2, f).kind = "ok")
            => Evaluate(e1, f) = Evaluate(e2, f)

\* C30: two trees with the same normalized text evaluate to the same
\* boolean on every fact record on which evaluate returns a boolean for
\* both.
C30_TextDeterminesMeaning ==
    pc = "normalized" => \A e2 \in SameText : SameMeaning(expr.ast, e2)

\* C30 witness: a tree was normalized to a text that a tree of another
\* shape has too, and both evaluate to a boolean on some fact record
C30_Witness ==
    /\ pc = "normalized"
    /\ expr.ast.type = "or"
    /\ expr.ast.left.type = "or"
    /\ \E e2 \in SameText :
          /\ e2.left.type = "comp"
          /\ \E f \in Facts :
                /\ Evaluate(expr.ast, f) = Returns(TRUE)
                /\ Evaluate(e2, f) = Returns(TRUE)

====
